---- MODULE Spec2Model ----
(***************************************************************************)
(* AirCare tree-plantation planner: the Streamlit session (st.session_state)*)
(* of one user, the Firestore documents behind db_handler, the script run   *)
(* order of app.py, the plant lifecycle handlers of the guardian dashboard  *)
(* and the gamification functions of user_profile.py.                       *)
(***************************************************************************)
EXTENDS Integers, Sequences, FiniteSets, TLC

VARIABLES
  pc,                \* position of the script: "top" | "login" | "page"
  today,             \* datetime.now().date() as a day number (one day here)
  logged_in,         \* st.session_state.logged_in
  user_id,           \* st.session_state.user_id
  user_state,        \* st.session_state.user_state
  show_profile_form, \* st.session_state.show_profile_form
  has_profile,       \* 'user_profile' in st.session_state
  user_profile,      \* st.session_state.user_profile
  planted_trees,     \* st.session_state.planted_trees
  watering_logs,     \* st.session_state.watering_logs
  db_users,          \* Firestore document users/<user_id>
  db_trees,          \* Firestore document planted_trees/<user_id>
  db_logs,           \* Firestore document watering_logs/<user_id>
  next_uuid,         \* number of uuid.uuid4() values drawn so far
  last_op,           \* history: the handler that ran last
  removed,           \* history: ids the user removed in this browser session
  failures,          \* number of Firestore calls that have failed so far
  sessions,          \* number of browser sessions that have ended
  closed,            \* history: the profile shown when the last browser session ended
  climate_data,      \* st.session_state.climate_data
  soil_data,         \* st.session_state.soil_data
  recommended_trees, \* st.session_state.recommended_trees
  impact,            \* the dashboard's impact = calculate_impact(planted_trees)
  written,           \* history: the record passed to the last save_user_data call
  streak_calls,      \* history: the days on which update_streak has been called
  space_size,        \* st.session_state.space_size
  sunlight_hours,    \* st.session_state.sunlight_hours
  planting_purpose,  \* st.session_state.planting_purpose
  next_action,       \* the advisory of a plant card: suggest_next_action(plant)
  savers             \* the save_watering_log calls in progress, one per session

vars == <<pc, today, logged_in, user_id, user_state, show_profile_form,
          has_profile, user_profile, planted_trees, watering_logs,
          db_users, db_trees, db_logs, next_uuid, last_op, removed, failures, sessions,
          closed, climate_data, soil_data, recommended_trees, impact, written,
          streak_calls, space_size, sunlight_hours, planting_purpose, next_action,
          savers>>

\* the session keys and histories that only the function checks change
toolVars == <<space_size, sunlight_hours, planting_purpose, next_action, savers>>
fnVars == <<climate_data, soil_data, recommended_trees, impact, written, streak_calls,
            toolVars>>

sessionVars == <<logged_in, user_id, user_state, show_profile_form,
                 has_profile, user_profile, planted_trees, watering_logs>>
dbVars == <<db_users, db_trees, db_logs>>

----------------------------------------------------------------------------
\* Bounds of the model

MaxUuid == 3        \* uuid4() draws, hence plants ever added
MaxPlants == 2      \* plants in the garden at a time
MaxWater == 1       \* "Log Water" clicks per plant log of a session
MaxFailures == 1    \* Firestore calls that fail
MaxSessions == 1    \* browser sessions that end
MaxXp == 1000       \* XP up to which the function checks call add_xp
MaxDay == 5         \* days that pass in the streak checks
MaxCalls == 4       \* update_streak calls in the streak checks
MaxRepeat == 5      \* plants of one kind in the gardens of the badge checks
MaxAge == 24        \* days since the last watering in the advisory checks
MaxSaves == 2       \* save_watering_log calls of each of the two sessions
LoginDay == 2       \* the day of the login of a returning user

----------------------------------------------------------------------------
\* Program constants

XpPerLevel == 500
BadgeBonus == 50
PlantXp == 50
UuidBase == 100
NoDate == -1
BadDate == -2
NoUser == "none"
TheUser == "user_9876543210"
TreeHuggerCount == 10
GreenThumbCount == 5
BalconyBossCount == 5
CarbonHeroKg == 100
RisingStarLevel == 3
MinRecommendations == 3
LowRainfall == 800
HighRainfall == 1500

Statuses == {"Newly Planted", "Seedling", "Sapling", "Young Tree", "Mature Tree"}
Healths == {"Excellent", "Good", "Fair", "Needs Attention", "Poor"}

\* get_tree_data() and get_balcony_plants_data(): the entries the add paths
\* of the model pick.  Tree entries carry an "id" key, balcony entries do not.
Catalog ==
  [name \in {"Neem", "Banyan", "Areca Palm"} |->
     IF name = "Neem"
       THEN [has_id |-> TRUE, id |-> 1, balcony |-> FALSE]
     ELSE IF name = "Banyan"
       THEN [has_id |-> TRUE, id |-> 2, balcony |-> FALSE]
       ELSE [has_id |-> FALSE, id |-> 0, balcony |-> TRUE]]

\* recommend_plants_by_aqi: names it returns that exist in the catalog lookup
AqiPicks == {"Neem", "Areca Palm"}
\* st.session_state.selected_tree shown by the Planting Guide
GuidePicks == {"Neem"}
\* selections of the status / health select boxes
UpdateInputs == {<<"Seedling", "Excellent">>, <<"Newly Planted", "Good">>}

----------------------------------------------------------------------------
\* user_profile.py

initialize_user_profile(now) ==
  [level |-> 1, xp |-> 0, trees_planted |-> 0, streak_days |-> 0,
   last_active_date |-> now, badges |-> <<>>, total_co2_offset |-> 0]

add_xp(p, amount) ==
  LET q == [p EXCEPT !.xp = @ + amount]
  IN IF q.xp >= q.level * XpPerLevel
       THEN [q EXCEPT !.level = @ + 1]
       ELSE q

BadgeNamesOf(p) == {p.badges[i].name : i \in 1..Len(p.badges)}

\* award_badge without the look-up of the existing names
award_badge_unchecked(p, badge_name) ==
  add_xp([p EXCEPT !.badges = Append(@, [name |-> badge_name])], BadgeBonus)

award_badge(p, badge_name) ==
  IF badge_name \notin BadgeNamesOf(p)
    THEN add_xp([p EXCEPT !.badges =
                   Append(@, [name |-> badge_name])],
                BadgeBonus)
    ELSE p

\* update_streak with a gap that does not break the streak
update_streak_no_reset(p, now) ==
  LET days_diff == now - p.last_active_date
      q == IF p.last_active_date \in {NoDate, BadDate}
             THEN [p EXCEPT !.streak_days = 1]
           ELSE IF days_diff = 0
             THEN p
           ELSE LET s == [p EXCEPT !.streak_days = @ + 1]
                IN IF s.streak_days \in {7, 30, 100}
                     THEN LET b == add_xp(s, s.streak_days * 10)
                          IN IF b.streak_days = 7
                               THEN award_badge(b, "Week Warrior")
                               ELSE b
                     ELSE s
  IN [q EXCEPT !.last_active_date = now]

\* NoDate is no stored date (the `else` of `if last_active`), BadDate one that
\* strptime rejects (the `except`)
update_streak(p, now) ==
  LET days_diff == now - p.last_active_date
      q == IF p.last_active_date = NoDate
             THEN [p EXCEPT !.streak_days = 1]
           ELSE IF p.last_active_date = BadDate
             THEN [p EXCEPT !.streak_days = 1]
           ELSE IF days_diff = 0
             THEN p
           ELSE IF days_diff = 1
             THEN LET s == [p EXCEPT !.streak_days = @ + 1]
                  IN IF s.streak_days \in {7, 30, 100}
                       THEN LET b == add_xp(s, s.streak_days * 10)
                            IN IF b.streak_days = 7
                                 THEN award_badge(b, "Week Warrior")
                                 ELSE b
                       ELSE s
           ELSE [p EXCEPT !.streak_days = 1]
  IN [q EXCEPT !.last_active_date = now]

CountWhere(trees, Test(_)) == Cardinality({i \in 1..Len(trees) : Test(trees[i])})

IsExcellent(t) == t.health = "Excellent"
\* 'space_required' in p: a key of the balcony entries only
IsBalconyPlant(t) == t.name \in DOMAIN Catalog /\ Catalog[t.name].balcony

check_and_award_badges(p, trees) ==
  LET planted_count == Len(trees)
      p1 == IF planted_count >= 1 THEN award_badge(p, "First Sprout") ELSE p
      p2 == IF planted_count >= TreeHuggerCount
              THEN award_badge(p1, "Tree Hugger") ELSE p1
      p3 == IF CountWhere(trees, IsExcellent) >= GreenThumbCount
              THEN award_badge(p2, "Green Thumb") ELSE p2
      p4 == IF CountWhere(trees, IsBalconyPlant) >= BalconyBossCount
              THEN award_badge(p3, "Balcony Boss") ELSE p3
      p5 == IF p4.total_co2_offset >= CarbonHeroKg
              THEN award_badge(p4, "Carbon Hero") ELSE p4
      p6 == IF p5.level >= RisingStarLevel
              THEN award_badge(p5, "Rising Star") ELSE p5
  IN p6

----------------------------------------------------------------------------
\* impact_calculator.py.  Coefficients are kept in tenths of their unit and
\* growth factors in tenths, so an impact is in hundredths.

carbon_values ==
  [n \in {"Neem", "Banyan", "Areca Palm"} |->
     CASE n = "Neem" -> 153
       [] n = "Banyan" -> 221
       [] n = "Areca Palm" -> 35]
oxygen_values ==
  [n \in {"Neem", "Banyan", "Areca Palm"} |->
     CASE n = "Neem" -> 207
       [] n = "Banyan" -> 298
       [] n = "Areca Palm" -> 47]
pollutant_values ==
  [n \in {"Neem", "Banyan", "Areca Palm"} |->
     CASE n = "Neem" -> 1356
       [] n = "Banyan" -> 1875
       [] n = "Areca Palm" -> 300]
factors ==
  [s \in Statuses |->
     CASE s = "Newly Planted" -> 1
       [] s = "Seedling" -> 3
       [] s = "Sapling" -> 5
       [] s = "Young Tree" -> 8
       [] s = "Mature Tree" -> 10]

get_base_carbon(tree_name) ==
  IF tree_name \in DOMAIN carbon_values THEN carbon_values[tree_name] ELSE 50
get_base_oxygen(tree_name) ==
  IF tree_name \in DOMAIN oxygen_values THEN oxygen_values[tree_name] ELSE 80
get_base_pollutants(tree_name) ==
  IF tree_name \in DOMAIN pollutant_values THEN pollutant_values[tree_name] ELSE 500

\* a growth factor that ignores the stage
get_growth_factor_flat(status) == 5

get_growth_factor(status) ==
  IF status \in DOMAIN factors THEN factors[status] ELSE 5

\* the loop of calculate_impact over the first n plants
RECURSIVE impact_loop(_, _)
impact_loop(trees, n) ==
  IF n = 0
    THEN [carbon_sequestered |-> 0, oxygen_produced |-> 0, pollutants_removed |-> 0]
    ELSE LET acc == impact_loop(trees, n - 1)
             tree == trees[n]
             growth_factor == get_growth_factor(tree.status)
         IN [carbon_sequestered |->
               acc.carbon_sequestered + get_base_carbon(tree.name) * growth_factor,
             oxygen_produced |->
               acc.oxygen_produced + get_base_oxygen(tree.name) * growth_factor,
             pollutants_removed |->
               acc.pollutants_removed + get_base_pollutants(tree.name) * growth_factor]

calculate_impact(trees) == impact_loop(trees, Len(trees))

----------------------------------------------------------------------------
\* recommendation.py and the outdoor catalog of tree_data.py it reads: the keys
\* get_recommendations uses; air_purification is
\* "Air Purification" in tree["purposes"].

get_tree_data ==
  <<
    [id |-> 1, name |-> "Neem",
     climate_suitability |-> {"Tropical", "Subtropical"},
     soil_suitability |-> {"Loamy", "Sandy", "Clay"},
     drought_tolerance |-> "High", water_needs |-> "Low", air_purification |-> TRUE],
    [id |-> 2, name |-> "Banyan",
     climate_suitability |-> {"Tropical", "Subtropical"},
     soil_suitability |-> {"Loamy", "Clay"},
     drought_tolerance |-> "Medium", water_needs |-> "Medium", air_purification |-> FALSE],
    [id |-> 3, name |-> "Arjuna",
     climate_suitability |-> {"Tropical", "Subtropical"},
     soil_suitability |-> {"Loamy", "Sandy", "Riverbed"},
     drought_tolerance |-> "Medium", water_needs |-> "Medium", air_purification |-> FALSE],
    [id |-> 4, name |-> "Peepal",
     climate_suitability |-> {"Tropical", "Subtropical"},
     soil_suitability |-> {"Loamy", "Sandy", "Clay"},
     drought_tolerance |-> "High", water_needs |-> "Low", air_purification |-> TRUE],
    [id |-> 5, name |-> "Gulmohar",
     climate_suitability |-> {"Tropical", "Subtropical"},
     soil_suitability |-> {"Loamy", "Sandy"},
     drought_tolerance |-> "High", water_needs |-> "Low", air_purification |-> TRUE],
    [id |-> 6, name |-> "Ashoka",
     climate_suitability |-> {"Tropical", "Subtropical"},
     soil_suitability |-> {"Loamy", "Clay"},
     drought_tolerance |-> "Low", water_needs |-> "High", air_purification |-> TRUE],
    [id |-> 7, name |-> "Mango",
     climate_suitability |-> {"Tropical", "Subtropical"},
     soil_suitability |-> {"Loamy", "Sandy", "Clay"},
     drought_tolerance |-> "Medium", water_needs |-> "Medium", air_purification |-> FALSE],
    [id |-> 8, name |-> "Amaltas",
     climate_suitability |-> {"Tropical", "Subtropical"},
     soil_suitability |-> {"Loamy", "Sandy"},
     drought_tolerance |-> "High", water_needs |-> "Low", air_purification |-> FALSE],
    [id |-> 9, name |-> "Jamun",
     climate_suitability |-> {"Tropical", "Subtropical"},
     soil_suitability |-> {"Loamy", "Sandy", "Clay"},
     drought_tolerance |-> "Medium", water_needs |-> "Medium", air_purification |-> FALSE],
    [id |-> 10, name |-> "Amla",
     climate_suitability |-> {"Tropical", "Subtropical", "Temperate"},
     soil_suitability |-> {"Loamy", "Sandy", "Rocky"},
     drought_tolerance |-> "High", water_needs |-> "Low", air_purification |-> FALSE],
    [id |-> 11, name |-> "Silver Oak",
     climate_suitability |-> {"Tropical", "Subtropical", "Temperate"},
     soil_suitability |-> {"Loamy", "Sandy"},
     drought_tolerance |-> "High", water_needs |-> "Low", air_purification |-> FALSE],
    [id |-> 12, name |-> "Eucalyptus",
     climate_suitability |-> {"Tropical", "Subtropical", "Temperate"},
     soil_suitability |-> {"Loamy", "Sandy", "Clay"},
     drought_tolerance |-> "High", water_needs |-> "Low", air_purification |-> FALSE]
  >>

\* the score of one tree
recommendation_score(tree, climate) ==
  (IF climate.annual_rainfall < LowRainfall
     THEN (IF tree.drought_tolerance = "High" THEN 3
           ELSE IF tree.drought_tolerance = "Medium" THEN 1 ELSE 0)
     ELSE 0)
  + (IF climate.annual_rainfall > HighRainfall
       THEN (IF tree.water_needs = "High" THEN 2
             ELSE IF tree.water_needs = "Medium" THEN 1 ELSE 0)
       ELSE 0)
  + (IF climate.pollution_level = "High" /\ tree.air_purification THEN 3 ELSE 0)

\* tree.copy() with the key recommendation_score added
tree_with_score(tree, climate) ==
  [k \in (DOMAIN tree) \cup {"recommendation_score"} |->
     IF k = "recommendation_score" THEN recommendation_score(tree, climate) ELSE tree[k]]

\* sorted(scored_trees, key=score, reverse=True): a stable sort, so the trees
\* of one score keep their order; scores from score down to 0
RECURSIVE sorted_from(_, _)
sorted_from(scored_trees, score) ==
  LET HasScore(t) == t.recommendation_score = score
      here == SelectSeq(scored_trees, HasScore)
  IN IF score = 0 THEN here ELSE here \o sorted_from(scored_trees, score - 1)

\* the scored list of the soil-suitable trees, also when they are few
get_recommendations_no_relax(climate, soil) ==
  LET ClimateOk(t) == climate.climate_zone \in t.climate_suitability
      SoilOk(t) == soil.soil_type \in t.soil_suitability
      soil_suitable_trees == SelectSeq(SelectSeq(get_tree_data, ClimateOk), SoilOk)
      scored_trees == [i \in 1..Len(soil_suitable_trees) |->
                         tree_with_score(soil_suitable_trees[i], climate)]
  IN sorted_from(scored_trees, 8)

get_recommendations(climate, soil) ==
  LET ClimateOk(t) == climate.climate_zone \in t.climate_suitability
      SoilOk(t) == soil.soil_type \in t.soil_suitability
      climate_suitable_trees == SelectSeq(get_tree_data, ClimateOk)
      soil_suitable_trees == SelectSeq(climate_suitable_trees, SoilOk)
      scored_trees == [i \in 1..Len(soil_suitable_trees) |->
                         tree_with_score(soil_suitable_trees[i], climate)]
  IN IF Len(soil_suitable_trees) < MinRecommendations
       THEN climate_suitable_trees
       ELSE sorted_from(scored_trees, 8)

----------------------------------------------------------------------------
\* recommendation.py, get_balcony_recommendations.  The labels of the space
\* select box are written in ASCII here ("<=" and "m2" for the signs of the
\* source).

TopCount == 9
EasyScore == 2
PurposeScore == 3
LowSunlight == 4
HighSunlight == 6
FullSunlight == 8

SpaceSizes ==
  <<"Very Small (<= 0.5 m2)", "Small (0.5-2 m2)", "Medium (2-5 m2)", "Large (>5 m2)">>

\* the goals of the multiselect
Purposes ==
  {"Air Purification", "Edible (Herbs/Vegetables)", "Aesthetic/Decor",
   "Low Maintenance", "Medicinal", "Stress Relief"}

get_balcony_plants_data ==
  << [name |-> "Snake Plant (Sansevieria)", space_required |-> "Very Small",
      sunlight_need |-> "Low (2-6 hours)", care_difficulty |-> "Very Easy",
      purposes |-> {"Air Purification", "Low Maintenance"}],
     [name |-> "Tulsi (Holy Basil)", space_required |-> "Small",
      sunlight_need |-> "High (6+ hours)", care_difficulty |-> "Easy",
      purposes |-> {"Medicinal", "Edible", "Air Purification"}],
     [name |-> "Money Plant (Pothos)", space_required |-> "Very Small",
      sunlight_need |-> "Low to Medium (2-6 hours)", care_difficulty |-> "Very Easy",
      purposes |-> {"Air Purification", "Aesthetic/Decor", "Low Maintenance"}],
     [name |-> "Aloe Vera", space_required |-> "Small",
      sunlight_need |-> "High (6+ hours)", care_difficulty |-> "Easy",
      purposes |-> {"Medicinal", "Low Maintenance"}],
     [name |-> "Mint (Pudina)", space_required |-> "Small",
      sunlight_need |-> "Medium (4-6 hours)", care_difficulty |-> "Easy",
      purposes |-> {"Edible", "Medicinal"}],
     [name |-> "Spider Plant", space_required |-> "Small",
      sunlight_need |-> "Low to Medium (2-6 hours)", care_difficulty |-> "Very Easy",
      purposes |-> {"Air Purification", "Low Maintenance", "Aesthetic/Decor"}],
     [name |-> "Coriander (Dhania)", space_required |-> "Small",
      sunlight_need |-> "Medium (4-6 hours)", care_difficulty |-> "Easy",
      purposes |-> {"Edible"}],
     [name |-> "Peace Lily", space_required |-> "Small to Medium",
      sunlight_need |-> "Low (2-4 hours)", care_difficulty |-> "Easy",
      purposes |-> {"Air Purification", "Aesthetic/Decor"}],
     [name |-> "Tomato (Dwarf Variety)", space_required |-> "Medium",
      sunlight_need |-> "High (6-8 hours)", care_difficulty |-> "Medium",
      purposes |-> {"Edible"}],
     [name |-> "Areca Palm", space_required |-> "Medium to Large",
      sunlight_need |-> "Medium (4-6 hours)", care_difficulty |-> "Medium",
      purposes |-> {"Air Purification", "Aesthetic/Decor"}] >>

\* "Low" in plant['sunlight_need'] and "High" in plant['sunlight_need']: the
\* substring tests on the strings of the catalog
NeedHasLow(sunlight_need) ==
  sunlight_need \in {"Low (2-6 hours)", "Low to Medium (2-6 hours)", "Low (2-4 hours)"}
NeedHasHigh(sunlight_need) ==
  sunlight_need \in {"High (6+ hours)", "High (6-8 hours)"}

\* space_map.get(space_size, ["Small"]), a single string made a list
allowed_spaces(size) ==
  CASE size = "Very Small (<= 0.5 m2)" -> {"Very Small"}
    [] size = "Small (0.5-2 m2)" -> {"Small"}
    [] size = "Medium (2-5 m2)" -> {"Small", "Medium"}
    [] size = "Large (>5 m2)" -> {"Small", "Medium", "Large"}
    [] OTHER -> {"Small"}

\* the three filters of the loop over all_plants
SpaceOk(plant, size) == plant.space_required \in allowed_spaces(size)
SunlightOk(plant, hours) ==
  /\ ~(hours < LowSunlight /\ ~NeedHasLow(plant.sunlight_need))
  /\ ~(hours >= HighSunlight /\ ~NeedHasHigh(plant.sunlight_need)
         /\ ~(hours < FullSunlight))
PurposeOk(plant, purposes) ==
  purposes # {} => plant.purposes \cap purposes # {}

suitability_score(plant, purposes) ==
  (IF plant.care_difficulty \in {"Very Easy", "Easy"} THEN EasyScore ELSE 0)
  + (IF purposes # {}
       THEN Cardinality(plant.purposes \cap purposes) * PurposeScore
       ELSE 0)

\* plant['suitability_score'] = score
plant_with_score(plant, purposes) ==
  [k \in (DOMAIN plant) \cup {"suitability_score"} |->
     IF k = "suitability_score" THEN suitability_score(plant, purposes) ELSE plant[k]]

\* recommendations.sort(key=suitability_score, reverse=True): stable
RECURSIVE sort_by_suitability(_, _)
sort_by_suitability(recommendations, score) ==
  LET HasScore(p) == p.suitability_score = score
      here == SelectSeq(recommendations, HasScore)
  IN IF score = 0 THEN here ELSE here \o sort_by_suitability(recommendations, score - 1)

\* recommendations[:9]
top(recommendations) ==
  SubSeq(recommendations, 1,
         IF Len(recommendations) < TopCount THEN Len(recommendations) ELSE TopCount)

\* the mutant: the scored list is returned as the loop built it
get_balcony_recommendations_unsorted(size, hours, purposes) ==
  LET Keep(plant) == /\ SpaceOk(plant, size)
                     /\ SunlightOk(plant, hours)
                     /\ PurposeOk(plant, purposes)
      kept == SelectSeq(get_balcony_plants_data, Keep)
      recommendations == [i \in 1..Len(kept) |-> plant_with_score(kept[i], purposes)]
  IN top(recommendations)

get_balcony_recommendations(size, hours, purposes) ==
  LET Keep(plant) == /\ SpaceOk(plant, size)
                     /\ SunlightOk(plant, hours)
                     /\ PurposeOk(plant, purposes)
      kept == SelectSeq(get_balcony_plants_data, Keep)
      recommendations == [i \in 1..Len(kept) |-> plant_with_score(kept[i], purposes)]
  IN top(sort_by_suitability(recommendations,
                             EasyScore + PurposeScore * Cardinality(purposes)))

----------------------------------------------------------------------------
\* db_handler.py: every function catches the store's exception and returns
\* its failure value; ok is whether the Firestore call went through.

Fails(ok) == IF ok THEN 0 ELSE 1

NoDoc(empty) == [exists |-> FALSE, data |-> empty]
EmptyLogs == [i \in {} |-> <<>>]

\* document.set(data, merge=True): the fields of data replace the stored ones,
\* the stored fields that data lacks stay
MergeFields(old, new) ==
  [k \in (DOMAIN old) \cup (DOMAIN new) |->
     IF k \in DOMAIN new THEN new[k] ELSE old[k]]

save_user_data(doc, data, ok) ==
  IF ok
    THEN [exists |-> TRUE,
          data |-> IF doc.exists THEN MergeFields(doc.data, data) ELSE data]
    ELSE doc

load_user_data(doc, ok) ==
  IF ok /\ doc.exists THEN doc ELSE NoDoc(doc.data)

save_planted_trees(doc, trees, ok) ==
  IF ok THEN [exists |-> TRUE, data |-> trees] ELSE doc

load_planted_trees(doc, ok) ==
  IF ok /\ doc.exists THEN doc.data ELSE <<>>

\* the session keeps isoformat strings, the store keeps {timestamp, date} dicts
save_watering_log(doc, plant_id, ok) ==
  IF ~ok THEN doc
  ELSE LET logs == IF doc.exists THEN doc.data ELSE EmptyLogs
           cur == IF plant_id \in DOMAIN logs THEN logs[plant_id] ELSE <<>>
           new == Append(cur, [kind |-> "dict"])
       IN [exists |-> TRUE,
           data |-> [k \in (DOMAIN logs) \cup {plant_id} |->
                       IF k = plant_id THEN new ELSE logs[k]]]

load_watering_logs(doc, ok) ==
  IF ok /\ doc.exists THEN doc.data ELSE EmptyLogs

\* dict.get(plant_id, [])
LogOf(logs, plant_id) == IF plant_id \in DOMAIN logs THEN logs[plant_id] ELSE <<>>

----------------------------------------------------------------------------
\* guardian_dashboard.py, suggest_next_action.  The texts are written without
\* their emoji; the text of the watering reminder carries the number of days.

FrequentWaterDays == 3
FrequentFertilizerDays == 14
SparseWaterDays == 7
SparseFertilizerDays == 21

Advice(text) == [text |-> text, days |-> NoDate]
NoAction == Advice("none")

\* any(x in plant_name for x in ['Snake Plant', 'Tulsi', 'Mint', 'Aloe',
\* 'Spider', 'Money', 'Jade', 'Peace Lily']) on the names of the catalogs
IsFrequentClass(plant_name) ==
  plant_name \in {"Snake Plant (Sansevieria)", "Tulsi (Holy Basil)", "Mint (Pudina)",
                  "Aloe Vera", "Spider Plant", "Money Plant (Pothos)", "Peace Lily"}

\* the branches on days_since of one class, in the order of the source
advice_by_days(days_since, water_days, fertilizer_days, fertilizer_text, good_text) ==
  IF days_since >= water_days
    THEN [text |-> "Water needed! Last watered N days ago", days |-> days_since]
    ELSE IF days_since >= fertilizer_days
           THEN Advice(fertilizer_text)
           ELSE Advice(good_text)

\* an entry of the session log is an isoformat string (kind "str", written on
\* the day `day`) or a dict loaded from the store (kind "dict")
suggest_next_action(plant, logs_of_session, now) ==
  LET logs == LogOf(logs_of_session, plant.id)
      last_watered == logs[Len(logs)]
      days_since == now - last_watered.day
  IN IF logs = <<>> THEN Advice("Water your plant for the first time!")
     ELSE IF last_watered.kind = "dict" THEN Advice("Water your plant regularly")
     ELSE IF IsFrequentClass(plant.name)
       THEN advice_by_days(days_since, FrequentWaterDays, FrequentFertilizerDays,
                           "Time to add fertilizer", "All good! Check again tomorrow")
       ELSE advice_by_days(days_since, SparseWaterDays, SparseFertilizerDays,
                           "Consider adding organic fertilizer",
                           "Doing great! Water in a few days")

----------------------------------------------------------------------------
\* app.py

detect_user_state(trees) == IF Len(trees) = 0 THEN "EXPLORER" ELSE "GUARDIAN"

\* str(uuid.uuid4()): a value never returned before
uuid4(n) == UuidBase + n + 1

\* standardize_plant_data: defaults fill only the keys the entry lacks
standardize_plant_data(name, fresh) ==
  [id |-> IF Catalog[name].has_id THEN Catalog[name].id ELSE fresh,
   name |-> name, status |-> "Newly Planted", health |-> "Good"]

\* a reload on every run of a logged-in session
NeedsReload_always(trees) == TRUE

\* `not st.session_state.get('planted_trees')` in init_user_session
NeedsReload(trees) == trees = <<>>

\* load_user_data_if_logged_in: it reads the store only when the session has
\* no planted_trees key (or holds None); key_present is whether it has one.
load_user_data_if_logged_in(trees, ustate, key_present, doc, ok) ==
  IF logged_in /\ user_id # NoUser /\ ~key_present
    THEN LET loaded_trees == load_planted_trees(doc, ok)
         IN IF loaded_trees # <<>>
              THEN [trees |-> loaded_trees, user_state |-> detect_user_state(loaded_trees)]
              ELSE [trees |-> trees, user_state |-> ustate]
    ELSE [trees |-> trees, user_state |-> ustate]

\* init_session_state has run before anything reads them, so the session keys
\* hold their defaults from the start of a browser session.
BlankProfile == initialize_user_profile(NoDate)
\* 'climate_data': None, 'soil_data': None, 'recommended_trees': None
NoClimate == [climate_zone |-> "None", annual_rainfall |-> 0, pollution_level |-> "None"]
NoSoil == [soil_type |-> "None"]
\* no impact computed and no record written yet
NoImpact == [carbon_sequestered |-> 0, oxygen_produced |-> 0, pollutants_removed |-> 0]
NoRecord == [k \in {} |-> 0]
NoSavers == [s \in {} |-> 0]

Init ==
  /\ pc = "top"
  /\ today = 0
  /\ logged_in = FALSE
  /\ user_id = NoUser
  /\ user_state = "EXPLORER"
  /\ show_profile_form = FALSE
  /\ has_profile = FALSE
  /\ user_profile = BlankProfile
  /\ planted_trees = <<>>
  /\ watering_logs = EmptyLogs
  /\ db_users = NoDoc(BlankProfile)
  /\ db_trees = NoDoc(<<>>)
  /\ db_logs = NoDoc(EmptyLogs)
  /\ next_uuid = 0
  /\ last_op = "init"
  /\ removed = {}
  /\ failures = 0
  /\ sessions = 0
  /\ closed = [seen |-> FALSE, level |-> 1, xp |-> 0, badges |-> {}]
  /\ climate_data = NoClimate
  /\ soil_data = NoSoil
  /\ recommended_trees = <<>>
  /\ impact = NoImpact
  /\ written = NoRecord
  /\ streak_calls = <<>>
  /\ space_size = "Small (0.5-2 m2)"
  /\ sunlight_hours = 6
  /\ planting_purpose = {}
  /\ next_action = NoAction
  /\ savers = NoSavers

\* One script run from the top of app.py down to the login gate:
\* init_session_state (the planted_trees key exists from then on),
\* load_user_data_if_logged_in, the profile initialisation and
\* init_user_session up to its return for a logged-in session.
RunTop ==
  /\ pc = "top"
  /\ \E save_ok, trees_ok, logs_ok \in BOOLEAN :
       LET detected == IF logged_in THEN detect_user_state(planted_trees)
                                   ELSE user_state
           restored == load_user_data_if_logged_in(planted_trees, detected, TRUE,
                                                   db_trees, TRUE)
           inside == logged_in /\ user_id # NoUser
           autosave == user_id # NoUser /\ Len(restored.trees) > 0
           reload == inside /\ NeedsReload(restored.trees)
           dbt == IF autosave
                    THEN save_planted_trees(db_trees, restored.trees, save_ok)
                    ELSE db_trees
       IN /\ user_state' = restored.user_state
          /\ has_profile' = TRUE
          /\ user_profile' = IF has_profile THEN user_profile
                             ELSE update_streak(initialize_user_profile(today), today)
          /\ db_trees' = dbt
          /\ planted_trees' = IF reload THEN load_planted_trees(dbt, trees_ok)
                                        ELSE restored.trees
          /\ watering_logs' = IF reload THEN load_watering_logs(db_logs, logs_ok)
                                        ELSE watering_logs
          /\ pc' = IF inside THEN "page" ELSE "login"
          /\ (~autosave => save_ok) /\ (~reload => trees_ok /\ logs_ok)
          /\ failures' = failures + Fails(save_ok) + Fails(trees_ok) + Fails(logs_ok)
          /\ failures' <= MaxFailures
  /\ last_op' = "run"
  /\ UNCHANGED <<today, logged_in, user_id, show_profile_form, db_users, db_logs,
                 next_uuid, removed, sessions, closed>>
  /\ UNCHANGED fnVars

\* init_user_session, CASE B: a valid phone number is submitted
SubmitPhone ==
  /\ pc = "login"
  /\ ~show_profile_form
  /\ \E user_ok, trees_ok, logs_ok \in BOOLEAN :
       LET existing == load_user_data(db_users, user_ok)
       IN IF existing.exists
            THEN /\ user_id' = TheUser
                 /\ user_profile' = existing.data
                 /\ planted_trees' = load_planted_trees(db_trees, trees_ok)
                 /\ watering_logs' = load_watering_logs(db_logs, logs_ok)
                 /\ logged_in' = TRUE
                 /\ failures' = failures + Fails(user_ok) + Fails(trees_ok)
                                           + Fails(logs_ok)
                 /\ UNCHANGED show_profile_form
            ELSE /\ show_profile_form' = TRUE
                 /\ trees_ok /\ logs_ok
                 /\ failures' = failures + Fails(user_ok)
                 /\ UNCHANGED <<user_id, user_profile, planted_trees, watering_logs,
                                logged_in>>
  /\ failures' <= MaxFailures
  /\ pc' = "top"
  /\ last_op' = "phone"
  /\ UNCHANGED <<today, user_state, has_profile, dbVars, next_uuid, removed, sessions,
                 closed>>
  /\ UNCHANGED fnVars

\* init_user_session, CASE A: the profile form of a new user is submitted
SubmitProfile ==
  /\ pc = "login"
  /\ show_profile_form
  /\ \E trees_ok, user_ok \in BOOLEAN :
       LET loaded_trees == load_planted_trees(db_trees, trees_ok)
       IN /\ planted_trees' = loaded_trees
          /\ user_state' = IF Len(loaded_trees) > 0 THEN "GUARDIAN" ELSE "EXPLORER"
          /\ db_users' = save_user_data(db_users, user_profile, user_ok)
          /\ failures' = failures + Fails(trees_ok) + Fails(user_ok)
          /\ failures' <= MaxFailures
  /\ user_id' = TheUser
  /\ logged_in' = TRUE
  /\ show_profile_form' = FALSE
  /\ pc' = "top"
  /\ last_op' = "profile"
  /\ UNCHANGED <<today, has_profile, user_profile, watering_logs, db_trees, db_logs,
                 next_uuid, removed, sessions, closed>>
  /\ UNCHANGED fnVars

\* add_plant_to_garden_safe(full_plant) followed by its caller's add_xp and
\* check_and_award_badges (AQI quick picks of the hub and of the selector)
add_plant_to_garden_safe(name) ==
  /\ pc = "page"
  /\ next_uuid < MaxUuid
  /\ Len(planted_trees) < MaxPlants
  /\ \E save_ok \in BOOLEAN :
       LET plant == standardize_plant_data(name, uuid4(next_uuid))
           trees == Append(planted_trees, plant)
       IN /\ planted_trees' = trees
          /\ watering_logs' =
               IF plant.id \notin DOMAIN watering_logs
                 THEN [k \in (DOMAIN watering_logs) \cup {plant.id} |->
                         IF k = plant.id THEN <<>> ELSE watering_logs[k]]
                 ELSE watering_logs
          /\ db_trees' = save_planted_trees(db_trees, trees, save_ok)
          /\ user_profile' =
               check_and_award_badges(add_xp(user_profile, PlantXp), trees)
          /\ failures' = failures + Fails(save_ok)
          /\ failures' <= MaxFailures
  /\ user_state' = "GUARDIAN"
  /\ next_uuid' = next_uuid + 1
  /\ pc' = "top"
  /\ last_op' = "add_aqi"
  /\ UNCHANGED <<today, logged_in, user_id, show_profile_form, has_profile,
                 db_users, db_logs, removed, sessions, closed>>
  /\ UNCHANGED fnVars

\* Planting Guide: "Add to My Garden"
AddToMyGarden(name) ==
  /\ pc = "page"
  /\ next_uuid < MaxUuid
  /\ Len(planted_trees) < MaxPlants
  /\ LET tree_to_track == [id |-> uuid4(next_uuid), name |-> name,
                           status |-> "Newly Planted", health |-> "Good"]
         trees == Append(planted_trees, tree_to_track)
         counted == [user_profile EXCEPT !.trees_planted = Len(trees)]
     IN /\ planted_trees' = trees
        /\ user_profile' = check_and_award_badges(add_xp(counted, PlantXp), trees)
  /\ next_uuid' = next_uuid + 1
  /\ pc' = "top"
  /\ last_op' = "add_guide"
  /\ UNCHANGED <<today, logged_in, user_id, user_state, show_profile_form, has_profile,
                 watering_logs, dbVars, removed, failures, sessions, closed>>
  /\ UNCHANGED fnVars

\* The dashboard is drawn only in Guardian mode; the widgets of plant i take
\* their keys from its id, and Streamlit stops the script at the first card
\* whose key was already used, so the cards up to the first repeated id act.
CardActs(i) ==
  /\ user_state # "EXPLORER"
  /\ i \in 1..Len(planted_trees)
  /\ \A j, k \in 1..i : planted_trees[j].id = planted_trees[k].id => j = k

\* guardian dashboard: "Log Water"
LogWater(i) ==
  /\ pc = "page"
  /\ CardActs(i)
  /\ LET plant_id == planted_trees[i].id
         cur == LogOf(watering_logs, plant_id)
     IN /\ Len(cur) < MaxWater
        /\ Len(LogOf(db_logs.data, plant_id)) < MaxWater
        /\ watering_logs' =
             [k \in (DOMAIN watering_logs) \cup {plant_id} |->
                IF k = plant_id THEN Append(cur, [kind |-> "str"])
                                ELSE watering_logs[k]]
        /\ \E save_ok \in BOOLEAN :
             /\ db_logs' = IF user_id # NoUser
                             THEN save_watering_log(db_logs, plant_id, save_ok)
                             ELSE db_logs
             /\ (user_id = NoUser => save_ok)
             /\ failures' = failures + Fails(save_ok)
             /\ failures' <= MaxFailures
  /\ pc' = "top"
  /\ last_op' = "water"
  /\ UNCHANGED <<today, logged_in, user_id, user_state, show_profile_form, has_profile,
                 user_profile, planted_trees, db_users, db_trees, next_uuid, removed,
                 sessions, closed>>
  /\ UNCHANGED fnVars

\* guardian dashboard: "Save" of the status and health select boxes
SaveStatus(i, new_status, new_health) ==
  /\ pc = "page"
  /\ CardActs(i)
  /\ LET trees == [planted_trees EXCEPT ![i].status = new_status,
                                        ![i].health = new_health]
     IN /\ planted_trees' = trees
        /\ \E save_ok \in BOOLEAN :
             /\ db_trees' = IF user_id # NoUser
                              THEN save_planted_trees(db_trees, trees, save_ok)
                              ELSE db_trees
             /\ (user_id = NoUser => save_ok)
             /\ failures' = failures + Fails(save_ok)
             /\ failures' <= MaxFailures
  /\ pc' = "top"
  /\ last_op' = "status"
  /\ UNCHANGED <<today, logged_in, user_id, user_state, show_profile_form, has_profile,
                 user_profile, watering_logs, db_users, db_logs, next_uuid, removed,
                 sessions, closed>>
  /\ UNCHANGED fnVars

\* guardian dashboard: "Yes, remove it" (the Remove button before it only
\* raises the confirmation flag of the card)
ConfirmRemove(i) ==
  /\ pc = "page"
  /\ CardActs(i)
  /\ LET plant_id == planted_trees[i].id
         Keep(p) == p.id # plant_id
         trees == SelectSeq(planted_trees, Keep)
     IN /\ planted_trees' = trees
        /\ watering_logs' = [k \in (DOMAIN watering_logs) \ {plant_id} |->
                               watering_logs[k]]
        /\ user_state' = IF Len(trees) = 0 THEN "EXPLORER" ELSE user_state
        /\ removed' = removed \cup {plant_id}
        /\ \E save_ok \in BOOLEAN :
             /\ db_trees' = save_planted_trees(db_trees, trees, save_ok)
             /\ failures' = failures + Fails(save_ok)
             /\ failures' <= MaxFailures
  /\ pc' = "top"
  /\ last_op' = "remove"
  /\ UNCHANGED <<today, logged_in, user_id, show_profile_form, has_profile,
                 user_profile, db_users, db_logs, next_uuid, sessions, closed>>
  /\ UNCHANGED fnVars

\* navigate_to: any other click of a logged-in page ends the run with st.rerun()
navigate_to ==
  /\ pc = "page"
  /\ pc' = "top"
  /\ last_op' = "navigate"
  /\ UNCHANGED <<today, sessionVars, dbVars, next_uuid, removed, failures, sessions,
                 closed>>
  /\ UNCHANGED fnVars

\* The browser session ends and a new one starts: st.session_state is empty
\* again, the store keeps its documents.
NewSession ==
  /\ pc = "top"
  /\ sessions < MaxSessions
  /\ sessions' = sessions + 1
  /\ pc' = "top"
  /\ logged_in' = FALSE
  /\ user_id' = NoUser
  /\ user_state' = "EXPLORER"
  /\ show_profile_form' = FALSE
  /\ has_profile' = FALSE
  /\ user_profile' = BlankProfile
  /\ planted_trees' = <<>>
  /\ watering_logs' = EmptyLogs
  /\ removed' = {}
  /\ closed' = IF logged_in
               THEN [seen |-> TRUE, level |-> user_profile.level,
                     xp |-> user_profile.xp, badges |-> BadgeNamesOf(user_profile)]
               ELSE closed
  /\ last_op' = "new_session"
  /\ UNCHANGED <<today, dbVars, next_uuid, failures>>
  /\ UNCHANGED fnVars

Next ==
  \/ RunTop
  \/ SubmitPhone
  \/ SubmitProfile
  \/ \E name \in AqiPicks : add_plant_to_garden_safe(name)
  \/ \E name \in GuidePicks : AddToMyGarden(name)
  \/ \E i \in 1..MaxPlants : LogWater(i)
  \/ \E i \in 1..MaxPlants, u \in UpdateInputs : SaveStatus(i, u[1], u[2])
  \/ \E i \in 1..MaxPlants : ConfirmRemove(i)
  \/ navigate_to
  \/ NewSession

Spec == Init /\ [][Next]_vars

----------------------------------------------------------------------------
\* The gamification functions on their own: a profile drawn from StartProfiles
\* and the calls of user_profile.py applied to it in any order.

\* amounts the callers pass: selection, recommendations, profile completion,
\* planting or badge, and the 7-, 30- and 100-day streak bonuses
XpAmounts == {5, 10, 25, 50, 70, 300, 1000}
BadgeInputs == {"First Sprout", "Week Warrior"}
StartProfiles ==
  {[initialize_user_profile(0) EXCEPT !.level = l, !.xp = x] :
     l \in {1, 2}, x \in {0, 450}}

InitFn ==
  /\ pc = "fn"
  /\ today = 0
  /\ logged_in = FALSE
  /\ user_id = NoUser
  /\ user_state = "EXPLORER"
  /\ show_profile_form = FALSE
  /\ has_profile = TRUE
  /\ user_profile \in StartProfiles
  /\ planted_trees = <<>>
  /\ watering_logs = EmptyLogs
  /\ db_users = NoDoc(BlankProfile)
  /\ db_trees = NoDoc(<<>>)
  /\ db_logs = NoDoc(EmptyLogs)
  /\ next_uuid = 0
  /\ last_op = "init"
  /\ removed = {}
  /\ failures = 0
  /\ sessions = 0
  /\ closed = [seen |-> FALSE, level |-> 1, xp |-> 0, badges |-> {}]
  /\ climate_data = NoClimate
  /\ soil_data = NoSoil
  /\ recommended_trees = <<>>
  /\ impact = NoImpact
  /\ written = NoRecord
  /\ streak_calls = <<>>
  /\ space_size = "Small (0.5-2 m2)"
  /\ sunlight_hours = 6
  /\ planting_purpose = {}
  /\ next_action = NoAction
  /\ savers = NoSavers

FnRest == <<pc, today, logged_in, user_id, user_state, show_profile_form, has_profile,
            planted_trees, watering_logs, dbVars, next_uuid, removed, failures,
            sessions, closed, fnVars>>

FnAddXp(amount) ==
  /\ pc = "fn"
  /\ user_profile.xp + amount <= MaxXp
  /\ user_profile' = add_xp(user_profile, amount)
  /\ last_op' = "add_xp"
  /\ UNCHANGED FnRest

FnAwardBadge(badge_name) ==
  /\ pc = "fn"
  /\ user_profile.xp + BadgeBonus <= MaxXp
  /\ user_profile' = award_badge(user_profile, badge_name)
  /\ last_op' = IF badge_name \in BadgeNamesOf(user_profile)
                  THEN "award_again" ELSE "award"
  /\ UNCHANGED FnRest

NextFn ==
  \/ \E amount \in XpAmounts : FnAddXp(amount)
  \/ \E badge_name \in BadgeInputs : FnAwardBadge(badge_name)

SpecFn == InitFn /\ [][NextFn]_vars

----------------------------------------------------------------------------
\* update_streak on its own: a stored profile, days that pass, and calls of
\* update_streak on some of them.

StreakProfiles ==
  {[initialize_user_profile(0) EXCEPT !.streak_days = s, !.last_active_date = d] :
     s \in {0, 5, 6, 29, 99}, d \in {0, NoDate, BadDate}}

InitStreak ==
  /\ pc = "streak"
  /\ today = 0
  /\ logged_in = FALSE
  /\ user_id = NoUser
  /\ user_state = "EXPLORER"
  /\ show_profile_form = FALSE
  /\ has_profile = TRUE
  /\ user_profile \in StreakProfiles
  /\ planted_trees = <<>>
  /\ watering_logs = EmptyLogs
  /\ db_users = NoDoc(BlankProfile)
  /\ db_trees = NoDoc(<<>>)
  /\ db_logs = NoDoc(EmptyLogs)
  /\ next_uuid = 0
  /\ last_op = "init"
  /\ removed = {}
  /\ failures = 0
  /\ sessions = 0
  /\ closed = [seen |-> FALSE, level |-> 1, xp |-> 0, badges |-> {}]
  /\ climate_data = NoClimate
  /\ soil_data = NoSoil
  /\ recommended_trees = <<>>
  /\ impact = NoImpact
  /\ written = NoRecord
  /\ streak_calls = <<>>
  /\ space_size = "Small (0.5-2 m2)"
  /\ sunlight_hours = 6
  /\ planting_purpose = {}
  /\ next_action = NoAction
  /\ savers = NoSavers

StreakRest == <<pc, logged_in, user_id, user_state, show_profile_form, has_profile,
                planted_trees, watering_logs, dbVars, next_uuid, removed, failures,
                sessions, closed, climate_data, soil_data, recommended_trees, impact,
                written, toolVars>>

\* datetime.now() moves on to the next day
NextDay ==
  /\ pc = "streak"
  /\ today < MaxDay
  /\ today' = today + 1
  /\ last_op' = "next_day"
  /\ UNCHANGED <<user_profile, streak_calls>>
  /\ UNCHANGED StreakRest

\* update_streak(); the history keeps the day of the call and the streak and
\* last-active date the call found
FnUpdateStreak ==
  /\ pc = "streak"
  /\ Len(streak_calls) < MaxCalls
  /\ user_profile' = update_streak(user_profile, today)
  /\ streak_calls' = Append(streak_calls,
                            [day |-> today, found |-> user_profile.streak_days,
                             last |-> user_profile.last_active_date])
  /\ last_op' = "streak"
  /\ UNCHANGED today
  /\ UNCHANGED StreakRest

NextStreak ==
  \/ NextDay
  \/ FnUpdateStreak

SpecStreak == InitStreak /\ [][NextStreak]_vars

----------------------------------------------------------------------------
\* check_and_award_badges and calculate_impact on their own: a profile and a
\* garden, and calls of the two functions in any order.

\* name, growth stage and health of the plants of the gardens; "Bamboo" is in
\* no catalog and in no coefficient table
PlantKinds ==
  {[name |-> "Neem", status |-> "Newly Planted", health |-> "Good"],
   [name |-> "Banyan", status |-> "Mature Tree", health |-> "Excellent"],
   [name |-> "Areca Palm", status |-> "Seedling", health |-> "Good"],
   [name |-> "Bamboo", status |-> "Sapling", health |-> "Poor"],
   [name |-> "Neem", status |-> "Young Tree", health |-> "Excellent"]}

\* n plants of one kind, with the ids uuid4(base) .. uuid4(base + n - 1)
Repeat(kind, n, base) ==
  [i \in 1..n |-> [id |-> uuid4(base + i - 1), name |-> kind.name,
                   status |-> kind.status, health |-> kind.health]]

BadgeTreeLists ==
  {Repeat(k1, n, 0) \o Repeat(k2, m, MaxRepeat) :
     k1 \in PlantKinds, k2 \in PlantKinds, n \in 0..MaxRepeat, m \in 0..MaxRepeat}

BadgeProfiles ==
  {[initialize_user_profile(0) EXCEPT !.level = lx[1], !.xp = lx[2], !.streak_days = s] :
     lx \in {<<1, 0>>, <<2, 950>>}, s \in {0, 8}}

InitBadges ==
  /\ pc = "badges"
  /\ today = 0
  /\ logged_in = TRUE
  /\ user_id = TheUser
  /\ planted_trees \in BadgeTreeLists
  /\ user_state = detect_user_state(planted_trees)
  /\ show_profile_form = FALSE
  /\ has_profile = TRUE
  /\ user_profile \in BadgeProfiles
  /\ watering_logs = EmptyLogs
  /\ db_users = NoDoc(BlankProfile)
  /\ db_trees = NoDoc(<<>>)
  /\ db_logs = NoDoc(EmptyLogs)
  /\ next_uuid = 0
  /\ last_op = "init"
  /\ removed = {}
  /\ failures = 0
  /\ sessions = 0
  /\ closed = [seen |-> FALSE, level |-> 1, xp |-> 0, badges |-> {}]
  /\ climate_data = NoClimate
  /\ soil_data = NoSoil
  /\ recommended_trees = <<>>
  /\ impact = NoImpact
  /\ written = NoRecord
  /\ streak_calls = <<>>
  /\ space_size = "Small (0.5-2 m2)"
  /\ sunlight_hours = 6
  /\ planting_purpose = {}
  /\ next_action = NoAction
  /\ savers = NoSavers

BadgesRest == <<pc, today, logged_in, user_id, user_state, show_profile_form,
                has_profile, planted_trees, watering_logs, dbVars, next_uuid, removed,
                failures, sessions, closed, climate_data, soil_data, recommended_trees,
                written, streak_calls, toolVars>>

\* check_and_award_badges(); "check_again" is a call right after another one
FnCheckBadges ==
  /\ pc = "badges"
  /\ user_profile' = check_and_award_badges(user_profile, planted_trees)
  /\ last_op' = IF last_op \in {"check", "check_again"} THEN "check_again" ELSE "check"
  /\ UNCHANGED impact
  /\ UNCHANGED BadgesRest

\* impact = calculate_impact(st.session_state.planted_trees)
FnCalculateImpact ==
  /\ pc = "badges"
  /\ impact' = calculate_impact(planted_trees)
  /\ last_op' = "impact"
  /\ UNCHANGED user_profile
  /\ UNCHANGED BadgesRest

NextBadges ==
  \/ FnCheckBadges
  \/ FnCalculateImpact

SpecBadges == InitBadges /\ [][NextBadges]_vars

----------------------------------------------------------------------------
\* The dashboard of a Guardian whose garden holds GreenThumbCount plants, all
\* but the last in 'Excellent' health: runs of the script and status updates.

GardenStart ==
  Repeat([name |-> "Neem", status |-> "Sapling", health |-> "Excellent"],
         GreenThumbCount - 1, 0)
    \o Repeat([name |-> "Neem", status |-> "Sapling", health |-> "Good"],
              1, GreenThumbCount - 1)

\* the profile after the adds of these plants through the Planting Guide
GardenProfile ==
  check_and_award_badges(
    [initialize_user_profile(0) EXCEPT !.trees_planted = GreenThumbCount,
                                       !.xp = GreenThumbCount * PlantXp],
    GardenStart)

InitGarden ==
  /\ pc = "page"
  /\ today = 0
  /\ logged_in = TRUE
  /\ user_id = TheUser
  /\ user_state = "GUARDIAN"
  /\ show_profile_form = FALSE
  /\ has_profile = TRUE
  /\ user_profile = GardenProfile
  /\ planted_trees = GardenStart
  /\ watering_logs = EmptyLogs
  /\ db_users = [exists |-> TRUE, data |-> initialize_user_profile(0)]
  /\ db_trees = [exists |-> TRUE, data |-> GardenStart]
  /\ db_logs = NoDoc(EmptyLogs)
  /\ next_uuid = GreenThumbCount
  /\ last_op = "run"
  /\ removed = {}
  /\ failures = 0
  /\ sessions = 0
  /\ closed = [seen |-> FALSE, level |-> 1, xp |-> 0, badges |-> {}]
  /\ climate_data = NoClimate
  /\ soil_data = NoSoil
  /\ recommended_trees = <<>>
  /\ impact = NoImpact
  /\ written = NoRecord
  /\ streak_calls = <<>>
  /\ space_size = "Small (0.5-2 m2)"
  /\ sunlight_hours = 6
  /\ planting_purpose = {}
  /\ next_action = NoAction
  /\ savers = NoSavers

NextGarden ==
  \/ RunTop
  \/ \E i \in 1..GreenThumbCount, u \in UpdateInputs : SaveStatus(i, u[1], u[2])
  \/ navigate_to

SpecGarden == InitGarden /\ [][NextGarden]_vars

----------------------------------------------------------------------------
\* get_recommendations on its own: the climate and soil data of a location
\* and the call that fills recommended_trees.

\* get_climate_zones() names four zones; get_climate_data rounds the rainfall
ClimateInputs ==
  [climate_zone : {"Tropical", "Subtropical", "Temperate", "Arid"},
   annual_rainfall : {600, 1000, 2000},
   pollution_level : {"Low", "High"}]
SoilInputs ==
  [soil_type : {"Sandy", "Loamy", "Clay", "Silty", "Rocky", "Riverbed"}]

InitRec ==
  /\ pc = "rec"
  /\ today = 0
  /\ logged_in = TRUE
  /\ user_id = TheUser
  /\ user_state = "EXPLORER"
  /\ show_profile_form = FALSE
  /\ has_profile = TRUE
  /\ user_profile = initialize_user_profile(0)
  /\ planted_trees = <<>>
  /\ watering_logs = EmptyLogs
  /\ db_users = NoDoc(BlankProfile)
  /\ db_trees = NoDoc(<<>>)
  /\ db_logs = NoDoc(EmptyLogs)
  /\ next_uuid = 0
  /\ last_op = "init"
  /\ removed = {}
  /\ failures = 0
  /\ sessions = 0
  /\ closed = [seen |-> FALSE, level |-> 1, xp |-> 0, badges |-> {}]
  /\ climate_data \in ClimateInputs
  /\ soil_data \in SoilInputs
  /\ recommended_trees = <<>>
  /\ impact = NoImpact
  /\ written = NoRecord
  /\ streak_calls = <<>>
  /\ space_size = "Small (0.5-2 m2)"
  /\ sunlight_hours = 6
  /\ planting_purpose = {}
  /\ next_action = NoAction
  /\ savers = NoSavers

\* st.session_state.recommended_trees = get_recommendations(climate_data, soil_data)
FnGetRecommendations ==
  /\ pc = "rec"
  /\ recommended_trees' = get_recommendations(climate_data, soil_data)
  /\ last_op' = "recommend"
  /\ UNCHANGED <<pc, today, sessionVars, dbVars, next_uuid, removed, failures, sessions,
                 closed, climate_data, soil_data, impact, written, streak_calls,
                 toolVars>>

NextRec == FnGetRecommendations

SpecRec == InitRec /\ [][NextRec]_vars

----------------------------------------------------------------------------
\* get_balcony_recommendations on its own: the inputs of the balcony form and
\* the call that fills recommended_trees in balcony mode.

MaxHours == 12      \* the slider "Daily sunlight (hours)" ends at 12

InitBalcony ==
  /\ pc = "balcony"
  /\ today = 0
  /\ logged_in = TRUE
  /\ user_id = TheUser
  /\ user_state = "EXPLORER"
  /\ show_profile_form = FALSE
  /\ has_profile = TRUE
  /\ user_profile = initialize_user_profile(0)
  /\ planted_trees = <<>>
  /\ watering_logs = EmptyLogs
  /\ db_users = NoDoc(BlankProfile)
  /\ db_trees = NoDoc(<<>>)
  /\ db_logs = NoDoc(EmptyLogs)
  /\ next_uuid = 0
  /\ last_op = "init"
  /\ removed = {}
  /\ failures = 0
  /\ sessions = 0
  /\ closed = [seen |-> FALSE, level |-> 1, xp |-> 0, badges |-> {}]
  /\ climate_data = NoClimate
  /\ soil_data = NoSoil
  /\ recommended_trees = <<>>
  /\ impact = NoImpact
  /\ written = NoRecord
  /\ streak_calls = <<>>
  /\ space_size \in {SpaceSizes[i] : i \in 1..Len(SpaceSizes)}
  /\ sunlight_hours \in 0..MaxHours
  /\ planting_purpose \in SUBSET Purposes
  /\ next_action = NoAction
  /\ savers = NoSavers

\* st.session_state.recommended_trees = get_balcony_recommendations(space_size,
\* sunlight_hours, planting_purpose, climate_data)
FnGetBalconyRecommendations ==
  /\ pc = "balcony"
  /\ recommended_trees' =
       get_balcony_recommendations(space_size, sunlight_hours, planting_purpose)
  /\ last_op' = "balcony"
  /\ UNCHANGED <<pc, today, sessionVars, dbVars, next_uuid, removed, failures, sessions,
                 closed, climate_data, soil_data, impact, written, streak_calls,
                 toolVars>>

NextBalcony == FnGetBalconyRecommendations

SpecBalcony == InitBalcony /\ [][NextBalcony]_vars

----------------------------------------------------------------------------
\* suggest_next_action on its own: the card of one tracked plant whose log is
\* empty, loaded from the store, or ends with a watering of this session some
\* days ago.

\* plants added from the recommendations: the species of the catalog, and a
\* balcony herb, which has no catalog id
AdvisedPlants ==
  {standardize_plant_data(name, uuid4(0)) : name \in DOMAIN Catalog}
    \cup {[id |-> uuid4(0), name |-> "Tulsi (Holy Basil)", status |-> "Newly Planted",
           health |-> "Good"]}

AdvisedLogs ==
  {<<>>, <<[kind |-> "dict"]>>}
    \cup {<<[kind |-> "str", day |-> d]>> : d \in 0..MaxAge}
    \cup {<<[kind |-> "str", day |-> 0], [kind |-> "str", day |-> d]>> : d \in {MaxAge}}

InitAdvice ==
  /\ pc = "advice"
  /\ today = MaxAge
  /\ logged_in = TRUE
  /\ user_id = TheUser
  /\ user_state = "GUARDIAN"
  /\ show_profile_form = FALSE
  /\ has_profile = TRUE
  /\ user_profile = initialize_user_profile(0)
  /\ \E plant \in AdvisedPlants : planted_trees = <<plant>>
  /\ \E log \in AdvisedLogs : watering_logs = [k \in {planted_trees[1].id} |-> log]
  /\ db_users = [exists |-> TRUE, data |-> initialize_user_profile(0)]
  /\ db_trees = [exists |-> TRUE, data |-> planted_trees]
  /\ db_logs = NoDoc(EmptyLogs)
  /\ next_uuid = 1
  /\ last_op = "init"
  /\ removed = {}
  /\ failures = 0
  /\ sessions = 0
  /\ closed = [seen |-> FALSE, level |-> 1, xp |-> 0, badges |-> {}]
  /\ climate_data = NoClimate
  /\ soil_data = NoSoil
  /\ recommended_trees = <<>>
  /\ impact = NoImpact
  /\ written = NoRecord
  /\ streak_calls = <<>>
  /\ space_size = "Small (0.5-2 m2)"
  /\ sunlight_hours = 6
  /\ planting_purpose = {}
  /\ next_action = NoAction
  /\ savers = NoSavers

\* next_action = suggest_next_action(plant) of the plant card
FnSuggestNextAction ==
  /\ pc = "advice"
  /\ next_action' = suggest_next_action(planted_trees[1], watering_logs, today)
  /\ last_op' = "suggest"
  /\ UNCHANGED <<pc, today, sessionVars, dbVars, next_uuid, removed, failures, sessions,
                 closed, climate_data, soil_data, recommended_trees, impact, written,
                 streak_calls, space_size, sunlight_hours, planting_purpose, savers>>

NextAdvice == FnSuggestNextAction

SpecAdvice == InitAdvice /\ [][NextAdvice]_vars

----------------------------------------------------------------------------
\* save_watering_log in two sessions of one user at once.  The function reads
\* the document, appends to the copy it read and sets the whole document; the
\* store serves each get and each set as one step, and the steps of the two
\* calls interleave in any order.

Savers == {1, 2}
WateredIds == {Catalog["Neem"].id, uuid4(0)}

\* doc = ....get(); logs = doc.to_dict() if doc.exists else {}
read_logs(doc) == IF doc.exists THEN doc.data ELSE EmptyLogs

\* logs[plant_id].append({...}) on the copy the call read
with_event(logs, plant_id) ==
  [k \in (DOMAIN logs) \cup {plant_id} |->
     IF k = plant_id THEN Append(LogOf(logs, plant_id), [kind |-> "dict"])
                     ELSE logs[k]]

IdleSaver == [at |-> "idle", plant_id |-> 0, logs |-> EmptyLogs, calls |-> 0,
              returned_true |-> 0]

InitRace ==
  /\ pc = "race"
  /\ today = 0
  /\ logged_in = TRUE
  /\ user_id = TheUser
  /\ user_state = "GUARDIAN"
  /\ show_profile_form = FALSE
  /\ has_profile = TRUE
  /\ user_profile = initialize_user_profile(0)
  /\ planted_trees = <<standardize_plant_data("Neem", 0),
                       standardize_plant_data("Areca Palm", uuid4(0))>>
  /\ watering_logs = EmptyLogs
  /\ db_users = [exists |-> TRUE, data |-> initialize_user_profile(0)]
  /\ db_trees = [exists |-> TRUE, data |-> planted_trees]
  /\ db_logs = NoDoc(EmptyLogs)
  /\ next_uuid = 1
  /\ last_op = "init"
  /\ removed = {}
  /\ failures = 0
  /\ sessions = 0
  /\ closed = [seen |-> FALSE, level |-> 1, xp |-> 0, badges |-> {}]
  /\ climate_data = NoClimate
  /\ soil_data = NoSoil
  /\ recommended_trees = <<>>
  /\ impact = NoImpact
  /\ written = NoRecord
  /\ streak_calls = <<>>
  /\ space_size = "Small (0.5-2 m2)"
  /\ sunlight_hours = 6
  /\ planting_purpose = {}
  /\ next_action = NoAction
  /\ savers = [s \in Savers |-> IdleSaver]

RaceRest == <<pc, today, sessionVars, db_users, db_trees, next_uuid, removed, sessions,
              closed, climate_data, soil_data, recommended_trees, impact, written,
              streak_calls, space_size, sunlight_hours, planting_purpose, next_action>>

\* session s clicks "Log Water" of a plant: the call reads the document
SaverGet(s, plant_id) ==
  /\ pc = "race"
  /\ savers[s].at = "idle"
  /\ savers[s].calls < MaxSaves
  /\ savers' = [savers EXCEPT ![s].at = "read", ![s].plant_id = plant_id,
                              ![s].logs = read_logs(db_logs),
                              ![s].calls = savers[s].calls + 1]
  /\ last_op' = "get"
  /\ UNCHANGED <<db_logs, failures>>
  /\ UNCHANGED RaceRest

\* the call of session s sets the document and returns True
SaverSet(s) ==
  /\ pc = "race"
  /\ savers[s].at = "read"
  /\ db_logs' = [exists |-> TRUE,
                 data |-> with_event(savers[s].logs, savers[s].plant_id)]
  /\ savers' = [savers EXCEPT ![s].at = "idle",
                              ![s].returned_true = savers[s].returned_true + 1]
  /\ last_op' = "set"
  /\ UNCHANGED failures
  /\ UNCHANGED RaceRest

\* the store raises in the call of session s: it returns False and writes nothing
SaverFail(s) ==
  /\ pc = "race"
  /\ savers[s].at = "read"
  /\ failures < MaxFailures
  /\ failures' = failures + 1
  /\ savers' = [savers EXCEPT ![s].at = "idle"]
  /\ last_op' = "set_failed"
  /\ UNCHANGED db_logs
  /\ UNCHANGED RaceRest

NextRace ==
  \/ \E s \in Savers, plant_id \in WateredIds : SaverGet(s, plant_id)
  \/ \E s \in Savers : SaverSet(s)
  \/ \E s \in Savers : SaverFail(s)

SpecRace == InitRace /\ [][NextRace]_vars

----------------------------------------------------------------------------
\* The login of a returning user: the store holds the profile and the garden
\* of earlier days, the browser session is new.

\* the stored profile: last active today, yesterday, the day before, or never
ReturningProfiles ==
  {[initialize_user_profile(0) EXCEPT !.streak_days = s, !.last_active_date = d] :
     s \in {0, 5, 6, 29, 99},
     d \in {LoginDay, LoginDay - 1, LoginDay - 2, NoDate}}

ReturningGardens ==
  {<<>>, <<standardize_plant_data("Neem", 0)>>}

InitLogin ==
  /\ pc = "top"
  /\ today = LoginDay
  /\ logged_in = FALSE
  /\ user_id = NoUser
  /\ user_state = "EXPLORER"
  /\ show_profile_form = FALSE
  /\ has_profile = FALSE
  /\ user_profile = BlankProfile
  /\ planted_trees = <<>>
  /\ watering_logs = EmptyLogs
  /\ \E p \in ReturningProfiles : db_users = [exists |-> TRUE, data |-> p]
  /\ \E trees \in ReturningGardens : db_trees = [exists |-> TRUE, data |-> trees]
  /\ db_logs = NoDoc(EmptyLogs)
  /\ next_uuid = 0
  /\ last_op = "init"
  /\ removed = {}
  /\ failures = 0
  /\ sessions = 0
  /\ closed = [seen |-> FALSE, level |-> 1, xp |-> 0, badges |-> {}]
  /\ climate_data = NoClimate
  /\ soil_data = NoSoil
  /\ recommended_trees = <<>>
  /\ impact = NoImpact
  /\ written = NoRecord
  /\ streak_calls = <<>>
  /\ space_size = "Small (0.5-2 m2)"
  /\ sunlight_hours = 6
  /\ planting_purpose = {}
  /\ next_action = NoAction
  /\ savers = NoSavers

NextLogin ==
  \/ RunTop
  \/ SubmitPhone
  \/ navigate_to

SpecLogin == InitLogin /\ [][NextLogin]_vars

----------------------------------------------------------------------------
\* The db_handler writes on their own: sessions of one user that write the
\* user's documents one after the other.

\* the keys the two profile forms of app.py put into user_profile before
\* they call save_user_data
ProfileForms ==
  {[username |-> u, email |-> "mail", goal |-> "goal"] : u \in {"asha", "ravi"}}
    \cup {[username |-> u, location |-> "city", phone |-> "9876543210"] :
             u \in {"asha", "ravi"}}

\* st.session_state.user_profile[key] = value for the keys of the form
ProfileWith(p, form) == MergeFields(p, form)

\* gardens of the writing sessions
DbTreeLists ==
  {<<>>,
   <<standardize_plant_data("Neem", 0)>>,
   <<standardize_plant_data("Neem", 0), standardize_plant_data("Areca Palm", uuid4(0))>>}

InitDb ==
  /\ pc = "db"
  /\ today = 0
  /\ logged_in = TRUE
  /\ user_id = TheUser
  /\ user_state = "EXPLORER"
  /\ show_profile_form = FALSE
  /\ has_profile = TRUE
  /\ user_profile = initialize_user_profile(0)
  /\ planted_trees = <<>>
  /\ watering_logs = EmptyLogs
  /\ db_users = NoDoc(BlankProfile)
  /\ db_trees = NoDoc(<<>>)
  /\ db_logs = NoDoc(EmptyLogs)
  /\ next_uuid = 0
  /\ last_op = "init"
  /\ removed = {}
  /\ failures = 0
  /\ sessions = 0
  /\ closed = [seen |-> FALSE, level |-> 1, xp |-> 0, badges |-> {}]
  /\ climate_data = NoClimate
  /\ soil_data = NoSoil
  /\ recommended_trees = <<>>
  /\ impact = NoImpact
  /\ written = NoRecord
  /\ streak_calls = <<>>
  /\ space_size = "Small (0.5-2 m2)"
  /\ sunlight_hours = 6
  /\ planting_purpose = {}
  /\ next_action = NoAction
  /\ savers = NoSavers

DbRest == <<pc, today, logged_in, user_id, user_state, show_profile_form, has_profile,
            user_profile, watering_logs, db_logs, next_uuid, removed, sessions, closed,
            climate_data, soil_data, recommended_trees, impact, streak_calls, toolVars>>

\* a session submits a profile form: save_user_data(user_id, user_profile)
FnSaveUserData(form) ==
  /\ pc = "db"
  /\ \E ok \in BOOLEAN :
       /\ written' = ProfileWith(user_profile, form)
       /\ db_users' = save_user_data(db_users, written', ok)
       /\ failures' = failures + Fails(ok)
       /\ failures' <= MaxFailures
       /\ last_op' = IF ok THEN "save_user" ELSE "save_user_failed"
  /\ UNCHANGED <<planted_trees, db_trees>>
  /\ UNCHANGED DbRest

\* a session holding the garden trees saves it: save_planted_trees(user_id, trees)
FnSavePlantedTrees(trees) ==
  /\ pc = "db"
  /\ \E ok \in BOOLEAN :
       /\ planted_trees' = trees
       /\ db_trees' = save_planted_trees(db_trees, trees, ok)
       /\ failures' = failures + Fails(ok)
       /\ failures' <= MaxFailures
       /\ last_op' = IF ok THEN "save_trees" ELSE "save_trees_failed"
  /\ UNCHANGED <<written, db_users>>
  /\ UNCHANGED DbRest

NextDb ==
  \/ \E form \in ProfileForms : FnSaveUserData(form)
  \/ \E trees \in DbTreeLists : FnSavePlantedTrees(trees)

SpecDb == InitDb /\ [][NextDb]_vars

----------------------------------------------------------------------------
\* Properties

Ids(trees) == {trees[i].id : i \in 1..Len(trees)}
Newest(trees) == trees[Len(trees)]
IsAddStep == next_uuid' # next_uuid
IsRunStep == pc = "top" /\ pc' # "top"

\* C1: add_xp leaves the profile below the threshold of its level: for a
\* profile with xp < level * 500 and any amount, the result again has
\* xp < level * 500 (one level-up per threshold crossed).
C1_XpBelowLevelThreshold ==
  user_profile.xp < user_profile.level * XpPerLevel

\* C2: award_badge is idempotent (a second call with the same name returns the
\* profile of the first call: one entry, one bonus) and the badge list never
\* holds two entries with the same name.
C2_AwardBadgeIdempotent ==
  /\ \A n \in BadgeInputs :
       award_badge(award_badge(user_profile, n), n) = award_badge(user_profile, n)
  /\ \A i, j \in 1..Len(user_profile.badges) :
       user_profile.badges[i].name = user_profile.badges[j].name => i = j

C2_Witness ==
  /\ last_op = "award_again"
  /\ Len(user_profile.badges) = Cardinality(BadgeInputs)

\* C3: no two entries of planted_trees share an id, and no entry carries the
\* id of a plant that was removed before.
C3_UniqueIds ==
  /\ \A i, j \in 1..Len(planted_trees) :
       planted_trees[i].id = planted_trees[j].id => i = j
  /\ \A i \in 1..Len(planted_trees) : planted_trees[i].id \notin removed

\* C4: right after an add through either path, the new plant is
\* 'Newly Planted', in 'Good' health, and the watering log the session holds
\* under its id is empty.
C4_FreshPlant ==
  last_op \in {"add_aqi", "add_guide"} =>
    /\ Newest(planted_trees).status = "Newly Planted"
    /\ Newest(planted_trees).health = "Good"
    /\ Len(LogOf(watering_logs, Newest(planted_trees).id)) = 0

\* C5: every add through either path raises user_profile['trees_planted'] by one.
C5_AddCountsPlant ==
  [][IsAddStep => user_profile'.trees_planted = user_profile.trees_planted + 1]_vars

\* C6: where a run of a logged-in session reads user_state (sidebar, My
\* Garden), it is 'EXPLORER' exactly when planted_trees is empty.
C6_ModeIsDerived ==
  (pc = "page" /\ logged_in) =>
    (user_state = "EXPLORER" <=> planted_trees = <<>>)

\* C7: a mutation stays visible in the logged-in session whether or not its
\* save went through: the run that follows a create, status update, watering
\* or removal shows the plants the handler left, each with the watering log
\* it left, and no later run of the session brings back a plant the user
\* removed.
C7_MutationStaysVisible ==
  [][IsRunStep =>
       /\ (logged_in /\ last_op \in {"add_aqi", "add_guide", "status", "water", "remove"})
             => /\ planted_trees' = planted_trees
                /\ \A id \in Ids(planted_trees) :
                     LogOf(watering_logs', id) = LogOf(watering_logs, id)
       /\ (Ids(planted_trees') \cap removed) \subseteq Ids(planted_trees)]_vars

\* C8: a run of load_user_data_if_logged_in and init_user_session in a
\* logged-in session that holds plants leaves planted_trees as it was,
\* whatever the store holds or returns.
C8_NoOverwriteOfHydrated ==
  [][(IsRunStep /\ logged_in /\ planted_trees # <<>>)
       => planted_trees' = planted_trees]_vars

\* a run has just left a non-empty garden in place although the store holds
\* something else
C8_Witness ==
  /\ last_op = "run"
  /\ logged_in
  /\ planted_trees # <<>>
  /\ load_planted_trees(db_trees, TRUE) # planted_trees

\* C9: once the session has been saved and no store access has failed,
\* load_planted_trees returns the session's plants (ids, order, status,
\* health) and load_watering_logs holds, for each plant, as many events as
\* the session log of that plant.
C9_RoundTrip ==
  (pc = "page" /\ logged_in /\ failures = 0) =>
    /\ load_planted_trees(db_trees, TRUE) = planted_trees
    /\ \A i \in 1..Len(planted_trees) :
         Len(LogOf(load_watering_logs(db_logs, TRUE), planted_trees[i].id))
           = Len(LogOf(watering_logs, planted_trees[i].id))

\* C10: the profile a user sees after logging in again is not behind the one
\* the previous browser session showed: level and XP are not lower and every
\* badge earned is still there.
C10_ProfileNeverRegresses ==
  (logged_in /\ closed.seen) =>
    /\ user_profile.level >= closed.level
    /\ user_profile.xp >= closed.xp
    /\ closed.badges \subseteq BadgeNamesOf(user_profile)

C12_TransientFailureRetried ==
  [][(user_id # NoUser /\ failures = 0 /\ failures' = 1)
       => /\ last_op' \in {"add_aqi", "status", "remove"}
               => load_planted_trees(db_trees', TRUE) = planted_trees'
          /\ last_op' = "water" => db_logs' # db_logs]_vars

\* the streak rule for one call: q is the profile update_streak leaves for p
\* on day now, badge_xp the XP of a badge the call may give on top
StreakRule(p, q, now, badge_xp) ==
  LET last == p.last_active_date
      dated == last \notin {NoDate, BadDate}
  IN /\ q.last_active_date = now
     /\ (dated /\ now - last = 1) =>
           /\ q.streak_days = p.streak_days + 1
           /\ q.xp = p.xp + badge_xp
                     + (IF q.streak_days \in {7, 30, 100} THEN q.streak_days * 10 ELSE 0)
     /\ (dated /\ now - last = 0) => q.streak_days = p.streak_days /\ q.xp = p.xp
     /\ (~dated \/ now - last > 1) => q.streak_days = 1 /\ q.xp = p.xp

\* C13: update_streak follows the streak rule for every stored last-active
\* date: yesterday gives streak + 1 and XP + streak x 10 exactly at 7, 30 and
\* 100 and no XP otherwise; today changes nothing; a longer gap, no date or an
\* unparsable date gives streak 1; last_active_date is today afterwards.
C13_StreakRule ==
  [][last_op' = "streak" => StreakRule(user_profile, user_profile', today, 0)]_vars

\* C13 as the code has it: the same rule, and the call that brings the streak
\* to 7 also gives the 'Week Warrior' badge with the 50 XP of a new badge.
C13_StreakRuleWithBadgeBonus ==
  [][last_op' = "streak" =>
       LET new_badges == BadgeNamesOf(user_profile') \ BadgeNamesOf(user_profile)
       IN /\ StreakRule(user_profile, user_profile', today,
                        BadgeBonus * Cardinality(new_badges))
          /\ new_badges \subseteq {"Week Warrior"}
          /\ new_badges # {} => user_profile'.streak_days = 7]_vars

C13_Witness ==
  /\ last_op = "streak"
  /\ user_profile.streak_days = 7
  /\ user_profile.xp = 7 * 10 + BadgeBonus
  /\ "Week Warrior" \in BadgeNamesOf(user_profile)

\* C14: from a profile made by initialize_user_profile, update_streak called
\* once on the day of creation and once on each of the next two days leaves
\* streak_days = 3 and no milestone XP; a following call two or more days
\* later sets streak_days to 1.
C14_ThreeDayStreak ==
  LET n == Len(streak_calls)
      ThreeDays ==
        /\ n >= 3
        /\ streak_calls[1].found = 0
        /\ streak_calls[1].last = streak_calls[1].day
        /\ streak_calls[2].day = streak_calls[1].day + 1
        /\ streak_calls[3].day = streak_calls[1].day + 2
  IN /\ (n = 3 /\ ThreeDays) => user_profile.streak_days = 3 /\ user_profile.xp = 0
     /\ (n = 4 /\ ThreeDays /\ streak_calls[4].day >= streak_calls[3].day + 2)
           => user_profile.streak_days = 1

Checked == last_op \in {"check", "check_again"}

\* C15: check_and_award_badges gives 'Week Warrior' from the rule table: after
\* it has run on a profile with streak_days >= 7, 'Week Warrior' is among the
\* badges.
C15_WeekWarriorFromRuleTable ==
  (Checked /\ user_profile.streak_days >= 7)
    => "Week Warrior" \in BadgeNamesOf(user_profile)

\* C16: check_and_award_badges gives 'Carbon Hero' for 100 kg of CO2: after it
\* has run while calculate_impact(planted_trees)['carbon_sequestered'] >= 100,
\* 'Carbon Hero' is among the badges.
C16_CarbonHeroFromImpact ==
  (Checked /\ calculate_impact(planted_trees).carbon_sequestered >= CarbonHeroKg * 100)
    => "Carbon Hero" \in BadgeNamesOf(user_profile)

\* C17: check_and_award_badges has idempotent effects: a call gives 50 XP for
\* each badge it adds and adds no badge twice, a call right after another one
\* leaves the profile as it was, and with exactly 10 plants 'Tree Hugger' is
\* held exactly once after every call.
C17_CheckBadgesIdempotent ==
  [][(last_op' \in {"check", "check_again"}) =>
       LET before == user_profile
           after == user_profile'
       IN /\ after.xp = before.xp + BadgeBonus * (Len(after.badges) - Len(before.badges))
          /\ \A i, j \in 1..Len(after.badges) :
               after.badges[i].name = after.badges[j].name => i = j
          /\ last_op' = "check_again" => after = before
          /\ Len(planted_trees) = TreeHuggerCount =>
               Cardinality({i \in 1..Len(after.badges) :
                              after.badges[i].name = "Tree Hugger"}) = 1]_vars

C17_Witness ==
  /\ last_op = "check_again"
  /\ Len(planted_trees) = TreeHuggerCount
  /\ "Tree Hugger" \in BadgeNamesOf(user_profile)

\* the claim's numbers, in the units of the model: growth factors in tenths,
\* default coefficients in tenths of a kg
ClaimFactor(status) ==
  CASE status = "Newly Planted" -> 1
    [] status = "Seedling" -> 3
    [] status = "Sapling" -> 5
    [] status = "Young Tree" -> 8
    [] status = "Mature Tree" -> 10
ClaimCoefficient(table, default, name) ==
  IF name \in DOMAIN table THEN table[name] ELSE default

RECURSIVE SumOfContributions(_, _, _)
SumOfContributions(trees, table, default) ==
  IF trees = <<>> THEN 0
  ELSE ClaimCoefficient(table, default, Head(trees).name) * ClaimFactor(Head(trees).status)
         + SumOfContributions(Tail(trees), table, default)

C18_GreenThumbAfterUpdate ==
  (pc = "page" /\ Cardinality({i \in 1..Len(planted_trees) :
                                 IsExcellent(planted_trees[i])}) >= GreenThumbCount)
    => "Green Thumb" \in BadgeNamesOf(user_profile)

\* the catalog entries that list the climate zone, and those that also list
\* the soil type
ClimateSuitable ==
  {i \in 1..Len(get_tree_data) :
     climate_data.climate_zone \in get_tree_data[i].climate_suitability}
ClimateAndSoilSuitable ==
  {i \in ClimateSuitable : soil_data.soil_type \in get_tree_data[i].soil_suitability}
RecommendedIds == {recommended_trees[i].id : i \in 1..Len(recommended_trees)}

\* C20: get_recommendations returns only species that pass the hard filters:
\* every returned species lists the climate zone; each also lists the soil
\* type unless fewer than 3 species passed both filters, and then exactly the
\* climate-suitable species are returned; with no species for the climate
\* zone the result is the empty list.
C20_OnlyFilteredSpecies ==
  last_op = "recommend" =>
    /\ \A i \in 1..Len(recommended_trees) :
         climate_data.climate_zone \in recommended_trees[i].climate_suitability
    /\ IF Cardinality(ClimateAndSoilSuitable) < 3
         THEN /\ RecommendedIds = {get_tree_data[i].id : i \in ClimateSuitable}
              /\ Len(recommended_trees) = Cardinality(ClimateSuitable)
         ELSE \A i \in 1..Len(recommended_trees) :
                soil_data.soil_type \in recommended_trees[i].soil_suitability
    /\ ClimateSuitable = {} => recommended_trees = <<>>

\* a call that relaxed the soil filter and returned a species the soil rules out
C20_Witness ==
  /\ last_op = "recommend"
  /\ Cardinality(ClimateAndSoilSuitable) \in 1..2
  /\ \E i \in 1..Len(recommended_trees) :
       soil_data.soil_type \notin recommended_trees[i].soil_suitability

\* the place of a returned species in the catalog
CatalogIndex(tree) ==
  CHOOSE i \in 1..Len(get_tree_data) : get_tree_data[i].id = tree.id

\* C21: get_recommendations returns its result ranked by the score (+3/+1 for
\* High/Medium drought tolerance under 800 mm, +2/+1 for High/Medium water
\* needs over 1500 mm, +3 for air purification when pollution is High), not
\* increasing along the list and in catalog order among equal scores, for
\* every input, the ones that relax the soil filter included; so with 600 mm
\* and pollution not High no Low-tolerance species precedes a
\* High-tolerance one.
C21_RankedByScore ==
  last_op = "recommend" =>
    \A i, j \in 1..Len(recommended_trees) :
      i < j =>
        LET si == recommendation_score(recommended_trees[i], climate_data)
            sj == recommendation_score(recommended_trees[j], climate_data)
        IN /\ si >= sj
           /\ si = sj => CatalogIndex(recommended_trees[i]) < CatalogIndex(recommended_trees[j])
           /\ (climate_data.annual_rainfall = 600 /\ climate_data.pollution_level # "High")
                => ~(recommended_trees[i].drought_tolerance = "Low"
                     /\ recommended_trees[j].drought_tolerance = "High")

\* the names of the plants a call returns
NamesOf(plants) == {plants[i].name : i \in 1..Len(plants)}

\* C22: the balcony space filter accepts the band of the user and every
\* smaller band: with the same sunlight and purposes, every plant kept for a
\* smaller space size is kept for each larger one.
C22_SpaceBandsCumulative ==
  last_op = "balcony" =>
    \A i, j \in 1..Len(SpaceSizes) :
      (i < j /\ SpaceSizes[j] = space_size) =>
        NamesOf(get_balcony_recommendations(SpaceSizes[i], sunlight_hours,
                                            planting_purpose))
          \subseteq NamesOf(recommended_trees)

\* the plants of the catalog that pass the space and the purpose filter
PassSpaceAndPurpose ==
  {i \in 1..Len(get_balcony_plants_data) :
     /\ SpaceOk(get_balcony_plants_data[i], space_size)
     /\ PurposeOk(get_balcony_plants_data[i], planting_purpose)}

\* C23: with less than 4 hours of sunlight no plant whose need is High only
\* is returned, and with abundant sunlight (6 hours and more, up to 12) no
\* plant is left out because its need is Low or Medium.
C23_SunlightFilter ==
  last_op = "balcony" =>
    /\ sunlight_hours < 4 =>
         \A i \in 1..Len(recommended_trees) :
           ~(NeedHasHigh(recommended_trees[i].sunlight_need)
             /\ ~NeedHasLow(recommended_trees[i].sunlight_need))
    /\ sunlight_hours >= 6 =>
         \A i \in PassSpaceAndPurpose :
           ~NeedHasHigh(get_balcony_plants_data[i].sunlight_need)
             => get_balcony_plants_data[i].name \in NamesOf(recommended_trees)

\* the score of the rule: 2 for Easy or Very Easy care, 3 for each requested
\* purpose the plant has
ClaimSuitability(plant) ==
  (IF plant.care_difficulty \in {"Easy", "Very Easy"} THEN 2 ELSE 0)
  + 3 * Cardinality({p \in planting_purpose : p \in plant.purposes})

\* the plants of the catalog that pass the space and the sunlight filter
PassSpaceAndSunlight ==
  {i \in 1..Len(get_balcony_plants_data) :
     /\ SpaceOk(get_balcony_plants_data[i], space_size)
     /\ SunlightOk(get_balcony_plants_data[i], sunlight_hours)}

\* C24: get_balcony_recommendations returns at most 9 plants in the order of
\* a score that never increases along the list (2 for Easy or Very Easy care
\* plus 3 for each requested purpose the plant has); with purposes requested
\* every returned plant has one of them, with none requested no plant is
\* dropped for its purposes; no plant that passed the filters and is left out
\* has a higher score than a returned one.
C24_TopNineByScore ==
  last_op = "balcony" =>
    /\ Len(recommended_trees) <= 9
    /\ \A i \in 1..Len(recommended_trees) :
         /\ recommended_trees[i].suitability_score = ClaimSuitability(recommended_trees[i])
         /\ planting_purpose # {} =>
              recommended_trees[i].purposes \cap planting_purpose # {}
    /\ \A i, j \in 1..Len(recommended_trees) :
         i < j => recommended_trees[i].suitability_score
                    >= recommended_trees[j].suitability_score
    /\ planting_purpose = {} =>
         (Cardinality(PassSpaceAndSunlight) <= 9 =>
            NamesOf(recommended_trees)
              = {get_balcony_plants_data[i].name : i \in PassSpaceAndSunlight})
    /\ \A i \in PassSpaceAndSunlight :
         (/\ PurposeOk(get_balcony_plants_data[i], planting_purpose)
          /\ get_balcony_plants_data[i].name \notin NamesOf(recommended_trees))
           => \A k \in 1..Len(recommended_trees) :
                ClaimSuitability(get_balcony_plants_data[i])
                  <= recommended_trees[k].suitability_score

\* a call with purposes requested whose sort moved a plant of a higher score
\* ahead of plants that precede it in the catalog
C24_Witness ==
  /\ last_op = "balcony"
  /\ planting_purpose # {}
  /\ Len(recommended_trees) >= 3
  /\ recommended_trees[1].suitability_score > recommended_trees[2].suitability_score
  /\ recommended_trees[1].name = "Spider Plant"
  /\ recommended_trees[2].name = "Tulsi (Holy Basil)"

\* the days since the last entry of the log of the advised plant, an entry
\* this session wrote
DaysSinceWatered ==
  LET log == LogOf(watering_logs, planted_trees[1].id)
  IN today - log[Len(log)].day
LastIsOfSession ==
  LET log == LogOf(watering_logs, planted_trees[1].id)
  IN log # <<>> /\ log[Len(log)].kind = "str"
IsFertilizerReminder(action) ==
  action.text \in {"Time to add fertilizer", "Consider adding organic fertilizer"}
IsAllGood(action) ==
  action.text \in {"All good! Check again tomorrow", "Doing great! Water in a few days"}

\* C25: suggest_next_action gives the fertilizer reminder for a plant of the
\* frequent class last watered 14 or more days ago and for a plant of the
\* sparse class last watered 21 or more days ago, and the 'all good' text
\* below 3 (frequent) or 7 (sparse) days.
C25_FertilizerThresholds ==
  (last_op = "suggest" /\ LastIsOfSession) =>
    IF IsFrequentClass(planted_trees[1].name)
      THEN /\ DaysSinceWatered >= 14 => IsFertilizerReminder(next_action)
           /\ DaysSinceWatered < 3 => IsAllGood(next_action)
      ELSE /\ DaysSinceWatered >= 21 => IsFertilizerReminder(next_action)
           /\ DaysSinceWatered < 7 => IsAllGood(next_action)

\* C26: for every tracked plant the number of watering events the session
\* shows never decreases, whatever the operation (watering, status update,
\* add or removal of another plant, rerun, reload from the store, a failed
\* log write before it), as long as the plant stays tracked.
C26_WateringCountMonotone ==
  [][\A id \in Ids(planted_trees) \cap Ids(planted_trees') :
       Len(LogOf(watering_logs', id)) >= Len(LogOf(watering_logs, id))]_vars

\* the page after the rerun that follows a watering whose log write failed:
\* the plant is tracked, the session shows its event, the store has none
C26_Witness ==
  /\ pc = "page"
  /\ last_op = "run"
  /\ failures = 1
  /\ \E id \in Ids(planted_trees) :
       /\ Len(LogOf(watering_logs, id)) = 1
       /\ Len(LogOf(db_logs.data, id)) = 0

\* C27: removing a plant deletes its watering log everywhere: after a
\* confirmed removal whose writes all succeed neither the session
\* watering_logs nor the stored log document of the user has an entry for the
\* id of the plant.
C27_RemovalDeletesLogEverywhere ==
  [][(last_op' = "remove" /\ failures' = 0)
       => \A id \in Ids(planted_trees) \ Ids(planted_trees') :
            /\ id \notin DOMAIN watering_logs'
            /\ id \notin DOMAIN db_logs'.data]_vars

\* C29: a save to the store is attempted after every operation that changes
\* the lifecycle, within the handling of the same user action: after an add
\* through any path, a status update or a removal whose store calls do not
\* fail the stored plants are the plants of the session, and after a watering
\* the stored log has the new event.
C29_SaveAfterEveryMutation ==
  [][(user_id # NoUser /\ failures' = failures)
       => /\ last_op' \in {"add_aqi", "add_guide", "status", "remove"}
               => load_planted_trees(db_trees', TRUE) = planted_trees'
          /\ last_op' = "water" => db_logs' # db_logs]_vars

\* the watering events of the stored log document
StoredEvents ==
  LET logs == read_logs(db_logs)
  IN Len(LogOf(logs, Catalog["Neem"].id)) + Len(LogOf(logs, uuid4(0)))

\* C28: no watering event is lost when two sessions of the user log water at
\* the same time: however the reads and writes of their save_watering_log
\* calls interleave, the stored log holds an event for every call that
\* returned True.
C28_NoLostWateringEvent ==
  pc = "race" => StoredEvents >= savers[1].returned_true + savers[2].returned_true

\* C30: the daily streak update applies to the profile the user has: once a
\* returning user is logged in with the profile of the store, the session
\* profile is last active today and its streak is the stored streak advanced
\* by the update_streak rule from the stored last-active date.
C30_StreakAppliesToStoredProfile ==
  (logged_in /\ pc = "page") =>
    /\ user_profile.last_active_date = today
    /\ user_profile.streak_days = update_streak(db_users.data, today).streak_days

====
